---- MODULE Spec2Model ----
(***************************************************************************)
(* Model of the stock-tracker alert path: AlertChecker (alert_checker.py), *)
(* the StockFetcher cache (stock_fetcher.py) and the daemon cycle          *)
(* check_stocks (daemon.py) over the SQLite store (db_manager.py).         *)
(*                                                                         *)
(* Values.  Prices are integers (an amount in a fixed unit).  A Python     *)
(* Optional is a sequence of length <= 1: None is << >>, a present value x *)
(* is <<x>>.  A dict is a function whose DOMAIN is its key set.            *)
(***************************************************************************)
EXTENDS Integers, Sequences, FiniteSets, TLC

VARIABLES
    \* AlertChecker.check_alert applied to one entry, and what
    \* StockService._calculate_target_status makes of the same inputs
    entry, current_price, result, status,
    \* check_all_alerts arguments and result (also the locals of check_stocks)
    watchlist, prices, alerts,
    \* StockFetcher: _cache, the clock time.time() reads, and the record of
    \* the calls made: how many, how many ran fetch_func, the last one, and
    \* per key the last fetch stored since the cache was cleared
    cache, now, calls, fetches, lastCall, lastStore,
    \* the request threads inside _get_cached_or_fetch: per thread its
    \* position and its locals now, (cached_data, timestamp), data, and the
    \* value it returned; in SpecInfo, the futures of the pool of
    \* get_multiple_info: per future whether it is queued, running or done
    th,
    \* the SQLite store: the stocks, targets and alert_history tables
    stocks, targets, alert_history,
    \* SQLite itself: the largest id each AUTOINCREMENT table has given
    \* out, and whether the connections enforce foreign keys
    sqlite_sequence, foreign_keys,
    \* check_stocks: its configuration, its locals (stockList is the local
    \* `stocks`, symbolSet the local `symbols`, idx the position of its loops), whether it raised, and the
    \* number of AlertHistory rows when the cycle started
    config, stockList, idx, symbolSet, email_success, telegram_success, raised, rowsBefore,
    \* record of the cycle: the active targets as the cycle loaded them, and
    \* the send_multiple_alerts calls each channel received
    loaded, emailCalls, telegramCalls,
    \* main of daemon.py: the next run time of each scheduled job, the jobs
    \* run_pending still has to run, and the check_stocks calls in flight
    jobs, runnable, inflight,
    \* position of the run through the operation under study
    pc

cacheVars == <<cache, now, calls, fetches, lastCall, lastStore>>
alertVars == <<entry, current_price, result, status>>
batchVars == <<watchlist, prices, alerts>>
vars == <<entry, current_price, result, status, watchlist, prices, alerts,
          cache, now, calls, fetches, lastCall, lastStore, th,
          stocks, targets, alert_history, sqlite_sequence, foreign_keys,
          config, stockList, idx, symbolSet, email_success, telegram_success, raised, rowsBefore,
          loaded, emailCalls, telegramCalls, jobs, runnable, inflight, pc>>
storeVars == <<stocks, targets, alert_history, sqlite_sequence, foreign_keys>>
cycleVars == <<config, stockList, idx, symbolSet, email_success, telegram_success, raised,
               rowsBefore, loaded, emailCalls, telegramCalls>>
schedVars == <<jobs, runnable, inflight>>
daemonVars == <<storeVars, cycleVars, schedVars>>

----------------------------------------------------------------------------
\* Program constants

\* StockFetcher.__init__(cache_ttl=60)
cache_ttl == 60

\* ThreadPoolExecutor(max_workers=10) of get_multiple_info
max_workers == 10

----------------------------------------------------------------------------
\* Bounds of the model

\* prices and target prices range over MinPrice..MaxPrice
MaxPrice == 2
\* longest watchlist handed to check_all_alerts
MaxWatch == 2

\* calls of _get_cached_or_fetch in one run of SpecCache
MaxCalls == 3
\* calls of get_multiple_prices and get_multiple_info in one run of SpecBatch
MaxBatchCalls == 2
\* targets in the store
MaxTargets == 2
\* stock ids the store commands name
MaxStocks == 2
\* a cycle starts while alert_history has at most this many rows
MaxRows == 1
\* request threads calling _get_cached_or_fetch at the same time
NThreads == 2
\* clock advances in one run of SpecBatch
MaxBatchTicks == 2
\* longest symbol list of a batch request
MaxSyms == 2
\* jobs main schedules per day (the code schedules nine, 09:00 to 17:00)
MaxJobs == 2
\* hours the clock of SpecSched runs
MaxHours == 5
\* clock advances in one run; each advances the clock by TickStep seconds
MaxTicks == 3
\* symbols in one get_multiple_info request of SpecInfo
MaxInfoSyms == 11

MinPrice == 0 - 1
TickStep == cache_ttl \div 2

----------------------------------------------------------------------------
\* Python values

None == << >>
Some(x) == <<x>>
IsNone(o) == o = << >>
Val(o) == o[1]

DictGetZero(d, k) == IF k \in DOMAIN d THEN d[k] ELSE <<0>>

\* dict.get(key): the value, or None for a missing key
DictGet(d, k) == IF k \in DOMAIN d THEN d[k] ELSE None

Symbols == {"AAPL", "MSFT"}
\* "Hold" stands for any target_type string outside the four
TargetTypes == {"Buy", "Sell", "DCA", "Trim"}
AnyTypes == TargetTypes \cup {"Hold"}
TrimValues == {None, Some(25)}
PriceRange == MinPrice..MaxPrice
OptPrices == {None} \cup {Some(p) : p \in PriceRange}

----------------------------------------------------------------------------
\* alert_checker.py

Alert(symbol, cur, target_price, target_type, trim_percentage) ==
    [symbol |-> symbol, current_price |-> cur, target_price |-> target_price,
     target_type |-> target_type, trim_percentage |-> trim_percentage]

check_alert_never_equal(e, cur) ==
    IF IsNone(cur) THEN None
    ELSE IF e.target_type \in {"Buy", "DCA"}
         THEN IF Val(cur) < e.target_price
              THEN Some(Alert(e.symbol, Val(cur), e.target_price, e.target_type, None))
              ELSE None
    ELSE IF e.target_type \in {"Sell", "Trim"}
         THEN IF Val(cur) > e.target_price
              THEN Some(Alert(e.symbol, Val(cur), e.target_price, e.target_type,
                              e.trim_percentage))
              ELSE None
    ELSE None

\* AlertChecker.check_alert(entry, current_price) -> Optional[Alert]
check_alert(e, cur) ==
    IF IsNone(cur) THEN None
    ELSE IF e.target_type \in {"Buy", "DCA"}
         THEN IF Val(cur) <= e.target_price
              THEN Some(Alert(e.symbol, Val(cur), e.target_price, e.target_type, None))
              ELSE None
    ELSE IF e.target_type \in {"Sell", "Trim"}
         THEN IF Val(cur) >= e.target_price
              THEN Some(Alert(e.symbol, Val(cur), e.target_price, e.target_type,
                              e.trim_percentage))
              ELSE None
    ELSE None

\* the loop of check_all_alerts over watchlist[i..], appending in order
RECURSIVE CheckFrom(_, _, _)
CheckFrom(wl, pr, i) ==
    IF i > Len(wl) THEN << >>
    ELSE LET alert == check_alert(wl[i], DictGet(pr, wl[i].symbol))
         IN  (IF IsNone(alert) THEN << >> ELSE <<Val(alert)>>) \o CheckFrom(wl, pr, i + 1)

RECURSIVE FirstPerSymbol(_, _)
FirstPerSymbol(s, seen) ==
    IF s = << >> THEN << >>
    ELSE IF Head(s).symbol \in seen THEN FirstPerSymbol(Tail(s), seen)
    ELSE <<Head(s)>> \o FirstPerSymbol(Tail(s), seen \cup {Head(s).symbol})

check_all_alerts_dedup(wl, pr) == FirstPerSymbol(CheckFrom(wl, pr, 1), {})

\* AlertChecker.check_all_alerts(watchlist, prices) -> List[Alert]
check_all_alerts(wl, pr) == CheckFrom(wl, pr, 1)

----------------------------------------------------------------------------
\* stock_fetcher.py: the cache

\* ttl = ttl or self._cache_ttl: None and 0 both fall back to the default
EffectiveTtl(ttl) == IF IsNone(ttl) \/ Val(ttl) = 0 THEN cache_ttl ELSE Val(ttl)

CacheHitInclusive(c, t, key, ttl) ==
    key \in DOMAIN c /\ t - c[key].timestamp <= EffectiveTtl(ttl)

\* key in self._cache and now - timestamp < ttl
CacheHit(c, t, key, ttl) ==
    key \in DOMAIN c /\ t - c[key].timestamp < EffectiveTtl(ttl)

\* a dict of per-symbol results in which a symbol failed
HasFailure(data) == \E k \in DOMAIN data : IsNone(data[k])

CacheStoreSuccessOnly(c, t, key, data) ==
    IF HasFailure(data) THEN c ELSE (key :> [data |-> data, timestamp |-> t]) @@ c

CacheStoreKeepTimestamp(c, t, key, data) ==
    (key :> [data |-> data,
             timestamp |-> IF key \in DOMAIN c THEN c[key].timestamp ELSE t]) @@ c

\* self._cache[key] = (data, now)
CacheStore(c, t, key, data) == (key :> [data |-> data, timestamp |-> t]) @@ c

\* StockFetcher._get_cached_or_fetch(key, fetch_func, ttl) called at time t,
\* where fetch_func() would return `fetched`: whether fetch_func ran, the
\* value returned and the cache afterwards
get_cached_or_fetch(c, t, key, fetched, ttl) ==
    IF CacheHit(c, t, key, ttl)
    THEN [fetched |-> FALSE, data |-> c[key].data, cache |-> c]
    ELSE [fetched |-> TRUE, data |-> fetched, cache |-> CacheStore(c, t, key, fetched)]

\* StockFetcher.clear_cache()
clear_cache(c) == << >>

----------------------------------------------------------------------------
\* stock_fetcher.py: the batch fetches

\* the order of Python's str comparison on the symbols of the model
SymRank(s) == IF s = "AAPL" THEN 1 ELSE 2

RECURSIVE Insert(_, _)
Insert(x, sorted) ==
    IF sorted = << >> THEN <<x>>
    ELSE IF SymRank(x) <= SymRank(Head(sorted)) THEN <<x>> \o sorted
    ELSE <<Head(sorted)>> \o Insert(x, Tail(sorted))

\* sorted(symbols)
RECURSIVE Sorted(_)
Sorted(symbols) ==
    IF symbols = << >> THEN << >> ELSE Insert(Head(symbols), Sorted(Tail(symbols)))

\* '_'.join(parts)
RECURSIVE Join(_)
Join(parts) ==
    IF parts = << >> THEN ""
    ELSE IF Len(parts) = 1 THEN parts[1]
    ELSE parts[1] \o "_" \o Join(Tail(parts))

RECURSIVE Dedup(_)
Dedup(sorted) ==
    IF Len(sorted) <= 1 THEN sorted
    ELSE IF sorted[1] = sorted[2] THEN Dedup(Tail(sorted))
    ELSE <<sorted[1]>> \o Dedup(Tail(sorted))

batch_key_unsorted(prefix, symbols) == prefix \o Join(symbols)
batch_key_of_set(prefix, symbols) == prefix \o Join(Dedup(Sorted(symbols)))

\* cache_key = f"prices_{'_'.join(sorted(symbols))}", and "info_" likewise
batch_key(prefix, symbols) == prefix \o Join(Sorted(symbols))

\* the dict fetch_prices and fetch_info build: one entry per symbol of the
\* list, the upstream answer for it or None
fetch_batch(symbols, upstream) ==
    [s \in {symbols[i] : i \in DOMAIN symbols} |-> upstream[s]]

\* get_multiple_prices(symbols) and get_multiple_info(symbols) at time t:
\* {} for an empty list without touching the cache, else the cached fetch
\* with ttl=60
get_multiple(prefix, c, t, symbols, upstream) ==
    IF symbols = << >>
    THEN [fetched |-> FALSE, data |-> << >>, cache |-> c]
    ELSE get_cached_or_fetch(c, t, batch_key(prefix, symbols),
                             fetch_batch(symbols, upstream), Some(60))

----------------------------------------------------------------------------
\* db_manager.py: the queries and writes check_stocks and the toggle use

\* the rows of `stocks`, by row id
StockRow(id) == CHOOSE r \in stocks : r.id = id

RECURSIVE OrderBySymbol(_)
OrderBySymbol(rows) ==
    IF rows = {} THEN << >>
    ELSE LET first == CHOOSE r \in rows : \A q \in rows : SymRank(r.symbol) <= SymRank(q.symbol)
         IN  <<first>> \o OrderBySymbol(rows \ {first})

\* DatabaseManager.get_all_stocks(): SELECT * FROM stocks ORDER BY symbol
get_all_stocks == OrderBySymbol(stocks)

\* ids in the order of ORDER BY target_price; rows of equal price come in
\* rowid order, as SQLite scans them
RECURSIVE OrderByPrice(_)
OrderByPrice(ids) ==
    IF ids = {} THEN << >>
    ELSE LET first == CHOOSE i \in ids : \A j \in ids :
                          \/ targets[i].target_price < targets[j].target_price
                          \/ targets[i].target_price = targets[j].target_price /\ i <= j
         IN  <<first>> \o OrderByPrice(ids \ {first})

\* the Target object of row id
TargetOf(id) ==
    [id |-> id, stock_id |-> targets[id].stock_id, target_type |-> targets[id].target_type,
     target_price |-> targets[id].target_price,
     trim_percentage |-> targets[id].trim_percentage,
     alert_note |-> targets[id].alert_note, is_active |-> targets[id].is_active]

\* DatabaseManager.get_targets_for_stock(stock_id)
get_targets_for_stock(stock_id) ==
    LET ids == OrderByPrice({i \in DOMAIN targets : targets[i].stock_id = stock_id})
    IN  [k \in DOMAIN ids |-> TargetOf(ids[k])]

\* DatabaseManager.toggle_target_active(target_id): the table afterwards
toggle_target_active(target_id) ==
    IF target_id \in DOMAIN targets
    THEN [targets EXCEPT ![target_id].is_active = ~targets[target_id].is_active]
    ELSE targets

\* DatabaseManager.create_alert_history(...): the table afterwards
create_alert_history(stock_id, target_id, cur, target_price, target_type, note, sent) ==
    Append(alert_history,
           [stock_id |-> stock_id, target_id |-> target_id, current_price |-> cur,
            target_price |-> target_price, target_type |-> target_type,
            alert_note |-> note, email_sent |-> sent])

----------------------------------------------------------------------------
\* daemon.py: the pieces of check_stocks

AllTargets(ts) == ts

\* active_targets = [t for t in targets if t.is_active]
ActiveTargets(ts) == SelectSeq(ts, LAMBDA t : t.is_active)

\* the watchlist entries of one stock's active targets
EntriesOf(stock, ts) ==
    [k \in DOMAIN ts |->
        [symbol |-> stock.symbol, stock_id |-> stock.id, target_id |-> ts[k].id,
         target_type |-> ts[k].target_type, target_price |-> ts[k].target_price,
         trim_percentage |-> ts[k].trim_percentage, alert_note |-> ts[k].alert_note]]

\* e['symbol'] == alert.symbol and e['target_type'] == alert.target_type
\* and e['target_price'] == alert.target_price
Matches(e, alert) ==
    /\ e.symbol = alert.symbol
    /\ e.target_type = alert.target_type
    /\ e.target_price = alert.target_price

\* next((e for e in watchlist if ...), None)
matching_entry_last(wl, alert) ==
    IF \E i \in DOMAIN wl : Matches(wl[i], alert)
    THEN Some(wl[CHOOSE i \in DOMAIN wl :
                    Matches(wl[i], alert) /\ \A j \in (i + 1)..Len(wl) : ~Matches(wl[j], alert)])
    ELSE None

matching_entry(wl, alert) ==
    IF \E i \in DOMAIN wl : Matches(wl[i], alert)
    THEN Some(wl[CHOOSE i \in DOMAIN wl :
                    Matches(wl[i], alert) /\ \A j \in 1..(i - 1) : ~Matches(wl[j], alert)])
    ELSE None

\* what the transport does with a message
Transports == {"sent", "request_error", "error"}

send_alert_propagates(outcome) == [raises |-> outcome # "sent", ok |-> outcome = "sent"]

\* EmailNotifier.send_alert: True when the transport took the message; any
\* exception of the transport is caught and gives False
send_alert(outcome) == [raises |-> FALSE, ok |-> outcome = "sent"]

\* TelegramNotifier.send_message: the same, with one except clause for
\* request errors and one for all others
send_message(outcome) == [raises |-> FALSE, ok |-> outcome = "sent"]

SendEachAlert(as) == [i \in DOMAIN as |-> <<as[i]>>]

\* the send_multiple_alerts calls one channel gets for the alerts of a cycle:
\* one call with the whole list
SendMultipleAlerts(as) == <<as>>

----------------------------------------------------------------------------
\* Specification SpecCheckAlert: check_alert on every entry and price

\* the entries check_alert can be given: any type, any target price, with
\* or without a trim_percentage
Entries ==
    [symbol : Symbols, target_type : AnyTypes, target_price : PriceRange,
     trim_percentage : TrimValues]

BatchOff == watchlist = << >> /\ prices = << >> /\ alerts = << >>
SchedOff == jobs = << >> /\ runnable = << >> /\ inflight = 0
SqliteOff == sqlite_sequence = << >> /\ foreign_keys = FALSE
DaemonOff ==
    /\ stocks = {} /\ targets = << >> /\ alert_history = << >>
    /\ SqliteOff
    /\ config = << >> /\ stockList = << >> /\ idx = 0 /\ symbolSet = {}
    /\ email_success = FALSE /\ telegram_success = FALSE /\ raised = FALSE
    /\ rowsBefore = 0 /\ loaded = {} /\ emailCalls = << >> /\ telegramCalls = << >>
    /\ SchedOff
CacheOff ==
    /\ cache = << >> /\ now = 0 /\ calls = 0 /\ fetches = 0
    /\ lastCall = << >> /\ lastStore = << >>
    /\ th = << >>

\* stock_service.py

\* round(num / den * 100, 2) in hundredths, for den # 0: the nearest
\* hundredth (no quotient of the prices used here lies halfway between two)
Round2(num, den) ==
    LET n == IF den < 0 THEN 0 - num ELSE num
        d == IF den < 0 THEN 0 - den ELSE den
    IN  (2 * 10000 * n + d) \div (2 * d)

\* StockService._calculate_target_status: the division by target_price
\* comes before the trigger rule, so a target price of zero raises
\* ZeroDivisionError and no status is reported
calculate_target_status(cur, target_dict) ==
    LET target_price == target_dict.target_price
        target_type == target_dict.target_type
        difference == cur - target_price
    IN  IF target_price = 0
        THEN [raised |-> TRUE, value |-> None]
        ELSE [raised |-> FALSE,
              value |-> Some([difference |-> difference,
                              difference_percent |-> Round2(difference, target_price),
                              is_triggered |->
                                  IF target_type \in {"Buy", "DCA"}
                                  THEN cur <= target_price
                                  ELSE IF target_type \in {"Sell", "Trim"}
                                  THEN cur >= target_price
                                  ELSE FALSE])]

InitCheckAlert ==
    /\ entry \in Entries
    /\ current_price \in OptPrices
    /\ result = None
    /\ status = None
    /\ pc = "input"
    /\ BatchOff
    /\ CacheOff
    /\ DaemonOff

CheckAlert ==
    /\ pc = "input"
    /\ result' = check_alert(entry, current_price)
    /\ pc' = "output"
    /\ UNCHANGED <<entry, current_price, status, batchVars, cacheVars, th, daemonVars>>

\* the same target and the same price go through _calculate_target_status;
\* its callers hand it a price only when they have one
CalculateTargetStatus ==
    /\ pc = "output"
    /\ ~IsNone(current_price)
    /\ status' = calculate_target_status(Val(current_price), entry)
    /\ pc' = "status"
    /\ UNCHANGED <<entry, current_price, result, batchVars, cacheVars, th, daemonVars>>

NextCheckAlert == CheckAlert \/ CalculateTargetStatus

SpecCheckAlert == InitCheckAlert /\ [][NextCheckAlert]_vars

\* C1: check_alert returns an Alert exactly when the price is present and
\* (Buy/DCA and current_price <= target_price) or (Sell/Trim and
\* current_price >= target_price); equality triggers for all four types, a
\* type outside the four never triggers, zero and negative targets included.
C1_TriggerRule ==
    (pc = "output" /\ ~IsNone(current_price)) =>
        LET cur == Val(current_price)
            down == entry.target_type \in {"Buy", "DCA"}
            up == entry.target_type \in {"Sell", "Trim"}
        IN  /\ ~IsNone(result) <=> \/ (down /\ ~(cur > entry.target_price))
                                   \/ (up /\ ~(cur < entry.target_price))
            /\ (cur = entry.target_price /\ entry.target_type \in TargetTypes)
                   => ~IsNone(result)
            /\ entry.target_type \notin TargetTypes => IsNone(result)

\* an equal price has triggered a Trim target whose target price is not positive
C1_Witness ==
    /\ pc = "output"
    /\ entry.target_type = "Trim"
    /\ entry.target_price <= 0
    /\ current_price = Some(entry.target_price)
    /\ ~IsNone(result)

\* C16 as stated: a triggered Alert carries the entry's symbol, the current
\* price, the target price and the target type, and the entry's
\* trim_percentage when the type is Trim and none for Buy, DCA and Sell.
C16_TrimOnlyForTrim ==
    (pc = "output" /\ ~IsNone(result)) =>
        Val(result) = Alert(entry.symbol, Val(current_price), entry.target_price,
                            entry.target_type,
                            IF entry.target_type = "Trim" THEN entry.trim_percentage
                            ELSE None)

\* what the code does: the Sell branch is the Trim branch, so a Sell alert
\* carries the entry's trim_percentage too; Buy and DCA alerts carry none
C16_TrimForSellAndTrim ==
    (pc = "output" /\ ~IsNone(result)) =>
        Val(result) = Alert(entry.symbol, Val(current_price), entry.target_price,
                            entry.target_type,
                            IF entry.target_type \in {"Sell", "Trim"}
                            THEN entry.trim_percentage ELSE None)

\* a Sell entry that has a trim_percentage has triggered
C16_Witness ==
    /\ pc = "output" /\ ~IsNone(result)
    /\ entry.target_type = "Sell"
    /\ ~IsNone(entry.trim_percentage)

\* _calculate_target_status reported is_triggered = true
ReportsTriggered == ~status.raised /\ Val(status.value).is_triggered

\* C30 as stated: for every target type, every target price and every
\* available current price, _calculate_target_status reports
\* is_triggered = true exactly when check_alert returns an Alert.
C30_StatusAgreesWithAlert ==
    pc = "status" => (ReportsTriggered <=> ~IsNone(result))

\* what the code does: the two agree for every target price other than zero;
\* for a target price of zero _calculate_target_status raises
\* ZeroDivisionError and reports nothing, whatever check_alert returns
C30_AgreeUnlessZeroTarget ==
    pc = "status" =>
        IF entry.target_price = 0
        THEN status.raised /\ IsNone(status.value)
        ELSE ~status.raised /\ (Val(status.value).is_triggered <=> ~IsNone(result))

\* a Sell target at price zero: check_alert returned an Alert for a price
\* above it and _calculate_target_status raised
C30_Witness ==
    /\ pc = "status"
    /\ entry.target_type = "Sell" /\ entry.target_price = 0
    /\ current_price = Some(1)
    /\ ~IsNone(result)
    /\ status.raised

----------------------------------------------------------------------------
\* Specification SpecCheckAll: check_all_alerts on every watchlist and price map

\* watch entries as check_stocks builds them: a Trim target carries its
\* percentage, the other types none
BatchEntries ==
    {[symbol |-> s, target_type |-> t, target_price |-> p,
      trim_percentage |-> IF t = "Trim" THEN Some(25) ELSE None] :
        s \in Symbols, t \in AnyTypes, p \in 0..1}

Watchlists == UNION {[1..n -> BatchEntries] : n \in 0..MaxWatch}

\* a price map may lack a symbol, or map it to None
PriceMaps == UNION {[S -> {None} \cup {Some(p) : p \in 0..MaxPrice}] : S \in SUBSET Symbols}

AlertOff == entry = None /\ current_price = None /\ result = None /\ status = None

InitCheckAll ==
    /\ watchlist \in Watchlists
    /\ prices \in PriceMaps
    /\ alerts = << >>
    /\ pc = "input"
    /\ AlertOff
    /\ CacheOff
    /\ DaemonOff

CheckAllAlerts ==
    /\ pc = "input"
    /\ alerts' = check_all_alerts(watchlist, prices)
    /\ pc' = "output"
    /\ UNCHANGED <<watchlist, prices, alertVars, cacheVars, th, daemonVars>>

SpecCheckAll == InitCheckAll /\ [][CheckAllAlerts]_vars

\* the trigger rule of the specification, stated on an entry and a price map
HasPrice(e) == e.symbol \in DOMAIN prices /\ prices[e.symbol] # None
Triggers(e) ==
    /\ HasPrice(e)
    /\ \/ e.target_type \in {"Buy", "DCA"} /\ Val(prices[e.symbol]) <= e.target_price
       \/ e.target_type \in {"Sell", "Trim"} /\ Val(prices[e.symbol]) >= e.target_price
Triggering == {i \in DOMAIN watchlist : Triggers(watchlist[i])}
Rank(i) == Cardinality({j \in Triggering : j <= i})
IsAlertOf(a, e) ==
    /\ a.symbol = e.symbol
    /\ a.target_type = e.target_type
    /\ a.target_price = e.target_price
    /\ a.current_price = Val(prices[e.symbol])

\* C2: check_all_alerts returns one alert per triggering entry, in entry
\* order, nothing for the others and no merging of entries that share a
\* symbol; so it is no longer than the watchlist and empty for an empty map.
C2_OneAlertPerTrigger ==
    pc = "output" =>
        /\ Len(alerts) = Cardinality(Triggering)
        /\ \A i \in Triggering : IsAlertOf(alerts[Rank(i)], watchlist[i])
        /\ Len(alerts) <= Len(watchlist)
        /\ DOMAIN prices = {} => alerts = << >>

\* two entries of one symbol have both triggered
C2_Witness ==
    /\ pc = "output"
    /\ Len(watchlist) = 2
    /\ watchlist[1].symbol = watchlist[2].symbol
    /\ watchlist[1] # watchlist[2]
    /\ Len(alerts) = 2

Priced == SelectSeq(watchlist, HasPrice)

\* C3: an entry whose symbol has no price (None, or missing from the map)
\* yields no alert whatever its type, and the alerts are those of the
\* watchlist without such entries.
C3_NoPriceNoAlert ==
    pc = "output" =>
        /\ \A k \in DOMAIN alerts :
               alerts[k].symbol \in DOMAIN prices /\ prices[alerts[k].symbol] # None
        /\ alerts = check_all_alerts(Priced, prices)

\* a watchlist of a symbol missing from the map and a symbol that triggered
C3_Witness ==
    /\ pc = "output"
    /\ Len(watchlist) = 2
    /\ watchlist[1].symbol \notin DOMAIN prices
    /\ watchlist[1].target_type = "Sell"
    /\ watchlist[1].target_price = 0
    /\ Len(alerts) = 1
    /\ alerts[1].symbol = watchlist[2].symbol

----------------------------------------------------------------------------
\* Specification SpecCache: calls of _get_cached_or_fetch on one StockFetcher,
\* one after the other, as the clock advances

\* keys of single-argument fetch kinds (validate_symbol, search_symbols)
CacheKeys == {"validate_ZZZZ", "search_AAPL_10"}
\* the ttl argument: omitted (None), 0, or a positive number of seconds
TtlArgs == {None, Some(0), Some(TickStep), Some(cache_ttl)}

InitCache ==
    /\ cache = << >>
    /\ now = 0
    /\ calls = 0
    /\ fetches = 0
    /\ lastCall = << >>
    /\ lastStore = << >>
    /\ th = << >>
    /\ pc = "ready"
    /\ AlertOff
    /\ BatchOff
    /\ DaemonOff

\* the record of one call and the cache it leaves
Called(kind, symbols, key, ttl, r) ==
    /\ cache' = r.cache
    /\ calls' = calls + 1
    /\ fetches' = IF r.fetched THEN fetches + 1 ELSE fetches
    /\ lastCall' = [kind |-> kind, symbols |-> symbols, key |-> key, ttl |-> ttl,
                    at |-> now, fetched |-> r.fetched, ret |-> r.data]
    /\ lastStore' = IF r.fetched
                    THEN (key :> [kind |-> kind, symbols |-> symbols, data |-> r.data,
                                  at |-> now]) @@ lastStore
                    ELSE lastStore

\* one call of _get_cached_or_fetch; fetch_func, when it runs, returns None
\* (a failure) or a value that names the invocation
CachedCall ==
    /\ calls < MaxCalls
    /\ \E key \in CacheKeys, ttl \in TtlArgs, fetched \in {None, Some(fetches + 1)} :
           Called("raw", << >>, key, ttl,
                  get_cached_or_fetch(cache, now, key, fetched, ttl))
    /\ UNCHANGED <<now, pc, th, alertVars, batchVars, daemonVars>>

ClearCache ==
    /\ cache # << >>
    /\ cache' = clear_cache(cache)
    /\ lastStore' = << >>
    /\ UNCHANGED <<now, calls, fetches, lastCall, pc, th, alertVars, batchVars, daemonVars>>

Tick ==
    /\ now < (IF pc = "batch" THEN MaxBatchTicks ELSE MaxTicks) * TickStep
    /\ now' = now + TickStep
    /\ UNCHANGED <<cache, calls, fetches, lastCall, lastStore, pc, th, alertVars, batchVars, daemonVars>>

NextCache == CachedCall \/ ClearCache \/ Tick

SpecCache == InitCache /\ [][NextCache]_vars

\* C4: a call with a positive ttl runs fetch_func exactly when no entry for
\* the key was stored since the last clear_cache() or the stored entry's age
\* is >= ttl; otherwise it returns the stored value and runs no fetch.
C4_FetchIffAbsentOrExpired ==
    [][(calls' = calls + 1 /\ ~IsNone(lastCall'.ttl) /\ Val(lastCall'.ttl) > 0) =>
          LET key == lastCall'.key
              absent == key \notin DOMAIN lastStore
              expired == ~absent /\ now - lastStore[key].at >= Val(lastCall'.ttl)
          IN  /\ lastCall'.fetched <=> (absent \/ expired)
              /\ fetches' = fetches + (IF absent \/ expired THEN 1 ELSE 0)
              /\ ~(absent \/ expired) => lastCall'.ret = lastStore[key].data]_vars

\* the second of two calls with one key came within ttl and ran no fetch
C4_Witness ==
    /\ calls = 2
    /\ fetches = 1
    /\ lastCall.ttl = Some(cache_ttl)
    /\ ~lastCall.fetched
    /\ lastCall.key \in DOMAIN lastStore
    /\ lastCall.at > lastStore[lastCall.key].at

\* a call with an explicit ttl has just been made; whether it found an
\* entry for its key, and whether that entry is at least ttl old
ExplicitTtlCall == calls' = calls + 1 /\ ~IsNone(lastCall'.ttl)
Absent == lastCall'.key \notin DOMAIN lastStore
AgedAtLeast(ttl) == ~Absent /\ now - lastStore[lastCall'.key].at >= ttl
FetchedAndStored ==
    /\ lastCall'.fetched /\ fetches' = fetches + 1
    /\ cache'[lastCall'.key] = [data |-> lastCall'.ret, timestamp |-> now]

\* C28 as stated: a call with an explicit ttl, 0 included, judges the
\* stored entry by that ttl: an entry at least that old is treated as
\* absent, fetch_func runs, and its result is stored with the time of the
\* call and returned.
C28_TtlAsPassed ==
    [][ExplicitTtlCall => (AgedAtLeast(Val(lastCall'.ttl)) => FetchedAndStored)]_vars

\* what the code does: `ttl or self._cache_ttl` replaces a ttl of 0 by the
\* default of the fetcher, and every other ttl is used as passed
C28_ZeroTtlIsDefault ==
    [][ExplicitTtlCall =>
          LET used == IF Val(lastCall'.ttl) = 0 THEN cache_ttl ELSE Val(lastCall'.ttl)
          IN  IF Absent \/ AgedAtLeast(used) THEN FetchedAndStored
              ELSE /\ ~lastCall'.fetched /\ fetches' = fetches
                   /\ lastCall'.ret = lastStore[lastCall'.key].data
                   /\ cache' = cache]_vars

\* a call with ttl = 0 was answered from an entry stored 30 seconds before
C28_Witness ==
    /\ calls = 2
    /\ fetches = 1
    /\ lastCall.ttl = Some(0)
    /\ ~lastCall.fetched
    /\ lastCall.key \in DOMAIN lastStore
    /\ lastCall.at - lastStore[lastCall.key].at = TickStep

----------------------------------------------------------------------------
\* Specification SpecBatch: get_multiple_prices and get_multiple_info on one
\* StockFetcher, one call after the other, as the clock advances

SymbolLists == UNION {[1..n -> Symbols] : n \in 0..MaxSyms}
\* what the quote provider answers in one price fetch: a price for every
\* symbol, or a failure for every symbol
Upstreams == {[s \in Symbols |-> None], [s \in Symbols |-> Some(1)]}
\* and in one info fetch: the ticker info of every symbol
InfoUpstreams == {[s \in Symbols |-> Some(7)]}

InitBatch ==
    /\ cache = << >>
    /\ now = 0
    /\ calls = 0
    /\ fetches = 0
    /\ lastCall = << >>
    /\ lastStore = << >>
    /\ th = << >>
    /\ pc = "batch"
    /\ AlertOff
    /\ BatchOff
    /\ DaemonOff

GetMultiplePrices ==
    /\ calls < MaxBatchCalls
    /\ \E symbols \in SymbolLists, upstream \in Upstreams :
           Called("prices", symbols, batch_key("prices_", symbols), Some(60),
                  get_multiple("prices_", cache, now, symbols, upstream))
    /\ UNCHANGED <<now, pc, th, alertVars, batchVars, daemonVars>>

GetMultipleInfo ==
    /\ calls < MaxBatchCalls
    /\ \E symbols \in SymbolLists, upstream \in InfoUpstreams :
           Called("info", symbols, batch_key("info_", symbols), Some(60),
                  get_multiple("info_", cache, now, symbols, upstream))
    /\ UNCHANGED <<now, pc, th, alertVars, batchVars, daemonVars>>

NextBatch == GetMultiplePrices \/ GetMultipleInfo \/ Tick

SpecBatch == InitBatch /\ [][NextBatch]_vars

\* a batch call of a non-empty list has just been made
BatchCalled == calls' = calls + 1 /\ lastCall'.symbols # << >>
\* the stored fetches of the same kind as the call just made
SameKind == {k \in DOMAIN lastStore : lastStore[k].kind = lastCall'.kind}
Live(k) == now - lastStore[k].at < 60
Count(seq, x) == Cardinality({i \in DOMAIN seq : seq[i] = x})
IsPermutation(a, b) == Len(a) = Len(b) /\ \A x \in Symbols : Count(a, x) = Count(b, x)
SameSet(a, b) == {a[i] : i \in DOMAIN a} = {b[i] : i \in DOMAIN b}

\* C5: a stored price map with a failed (None) entry is served like any
\* other: the same request within 60 seconds of the fetch gets that map and
\* runs no fetch, the first one at or after 60 seconds fetches again.
C5_FailureIsCached ==
    [][BatchCalled =>
          \A k \in SameKind :
              (lastStore[k].symbols = lastCall'.symbols /\ HasFailure(lastStore[k].data)) =>
                  /\ Live(k) => (~lastCall'.fetched /\ fetches' = fetches
                                    /\ lastCall'.ret = lastStore[k].data)
                  /\ ~Live(k) => (lastCall'.fetched /\ fetches' = fetches + 1)]_vars

\* a failed price map was handed out again, 30 seconds after its fetch
C5_Witness ==
    /\ calls = 2
    /\ fetches = 1
    /\ lastCall.kind = "prices"
    /\ lastCall.symbols # << >>
    /\ ~lastCall.fetched
    /\ HasFailure(lastCall.ret)
    /\ lastCall.at = TickStep

\* C6: a batch call whose list is a permutation of the list of a fetch stored
\* less than ttl ago, of the same kind, returns that stored result and runs
\* no fetch.
C6_PermutationSameEntry ==
    [][BatchCalled =>
          \A k \in SameKind :
              (IsPermutation(lastStore[k].symbols, lastCall'.symbols) /\ Live(k)) =>
                  /\ ~lastCall'.fetched
                  /\ fetches' = fetches
                  /\ lastCall'.ret = lastStore[k].data]_vars

\* the list of the second call is the first call's in another order, and it
\* was served from the cache
C6_Witness ==
    /\ calls = 2
    /\ fetches = 1
    /\ ~lastCall.fetched
    /\ lastCall.symbols = <<"MSFT", "AAPL">>
    /\ \E k \in DOMAIN lastStore : lastStore[k].symbols = <<"AAPL", "MSFT">>

----------------------------------------------------------------------------
\* Specification SpecConc: the request threads of the web application call
\* _get_cached_or_fetch(key, fetch_func, ttl=60) for one key on the shared
\* StockFetcher.  A thread can be preempted between any two statements; a
\* dict lookup, a dict store and the building of the (data, now) tuple are
\* each one step of the interpreter.

Threads == 1..NThreads
SharedKey == "prices_AAPL"

InitConc ==
    /\ cache = << >>
    /\ now = 0
    /\ calls = 0
    /\ fetches = 0
    /\ lastCall = << >>
    /\ lastStore = << >>
    /\ th = [t \in Threads |-> [pc |-> "idle", now |-> 0, read |-> None,
                                 data |-> 0, ret |-> 0]]
    /\ pc = "threads"
    /\ AlertOff
    /\ BatchOff
    /\ DaemonOff

ThreadFrame == <<now, lastCall, pc, alertVars, batchVars, daemonVars>>

\* lines 38-39: ttl = ttl or self._cache_ttl; now = time.time()
Enter(t) ==
    /\ th[t].pc = "idle"
    /\ th' = [th EXCEPT ![t].pc = "check", ![t].now = now]
    /\ calls' = calls + 1
    /\ UNCHANGED <<cache, fetches, lastStore, ThreadFrame>>

\* line 42: if key in self._cache
CheckKey(t) ==
    /\ th[t].pc = "check"
    /\ th' = [th EXCEPT ![t].pc = IF SharedKey \in DOMAIN cache THEN "read" ELSE "fetch"]
    /\ UNCHANGED <<cache, calls, fetches, lastStore, ThreadFrame>>

\* lines 43-46: cached_data, timestamp = self._cache[key]; return
\* cached_data if now - timestamp < ttl
ReadEntry(t) ==
    /\ th[t].pc = "read"
    /\ LET e == cache[SharedKey]
       IN  th' = IF th[t].now - e.timestamp < EffectiveTtl(Some(60))
                 THEN [th EXCEPT ![t].pc = "done", ![t].read = Some(e), ![t].ret = e.data]
                 ELSE [th EXCEPT ![t].pc = "fetch", ![t].read = Some(e)]
    /\ UNCHANGED <<cache, calls, fetches, lastStore, ThreadFrame>>

\* line 50: data = fetch_func(); the result names the invocation
Fetch(t) ==
    /\ th[t].pc = "fetch"
    /\ fetches' = fetches + 1
    /\ th' = [th EXCEPT ![t].pc = "store", ![t].data = fetches + 1]
    /\ UNCHANGED <<cache, calls, lastStore, ThreadFrame>>

\* lines 51-52: self._cache[key] = (data, now); return data
Store(t) ==
    /\ th[t].pc = "store"
    /\ cache' = CacheStore(cache, th[t].now, SharedKey, th[t].data)
    /\ lastStore' = (SharedKey :> [data |-> th[t].data, at |-> th[t].now, by |-> t])
    /\ th' = [th EXCEPT ![t].pc = "done", ![t].ret = th[t].data]
    /\ UNCHANGED <<calls, fetches, ThreadFrame>>

NextConc ==
    \/ \E t \in Threads : Enter(t) \/ CheckKey(t) \/ ReadEntry(t) \/ Fetch(t) \/ Store(t)
    \/ Tick

SpecConc == InitConc /\ [][NextConc]_vars

\* the results fetch_func has returned so far, and those that were stored
Fetched == 1..fetches
Returned(t) == th[t].pc = "done"

\* C8: under every interleaving, fetch_func runs at most once per caller,
\* every caller returns the whole result of one invocation (its own, or one
\* it read from the cache), and the cache entry is the (value, timestamp)
\* pair of the caller that stored last.
C8_RaceIsBenign ==
    /\ fetches <= calls
    /\ \A t \in Threads :
           Returned(t) =>
               /\ th[t].ret \in Fetched
               /\ \/ th[t].ret = th[t].data
                  \/ ~IsNone(th[t].read) /\ th[t].ret = Val(th[t].read).data
    /\ SharedKey \in DOMAIN cache =>
           /\ SharedKey \in DOMAIN lastStore
           /\ cache[SharedKey] = [data |-> lastStore[SharedKey].data,
                                   timestamp |-> lastStore[SharedKey].at]
    /\ \A t \in Threads :
           ~IsNone(th[t].read) => Val(th[t].read).data \in Fetched

\* two callers both missed, both fetched, and both have stored and returned
C8_Witness ==
    /\ fetches = 2
    /\ th[1].pc = "done" /\ th[2].pc = "done"
    /\ th[1].ret # th[2].ret
    /\ lastStore[SharedKey].by = 1
    /\ th[1].now < th[2].now

----------------------------------------------------------------------------
\* Specification SpecSched: main of daemon.py.  It registers one job per
\* hour of the trading day, calls check_stocks once, and then loops over
\* schedule.run_pending() and time.sleep(60).  The clock counts hours; a
\* model day has the job hours 1..MaxJobs and one hour without a job.  A
\* check_stocks call is one step to begin and one to return, and the clock
\* may advance in between.

Jobs == 1..MaxJobs
Day == MaxJobs + 1

\* Job._schedule_next_run: the next time after t at the job's hour
NextRun(j, t) == CHOOSE u \in (t + 1)..(t + Day) : u % Day = j % Day

\* Job.should_run
Due(j) == now >= jobs[j]

\* sorted(job for job in self.jobs if job.should_run): by next run time
RECURSIVE SortedDue(_)
SortedDue(js) ==
    IF js = {} THEN << >>
    ELSE LET first == CHOOSE j \in js : \A k \in js :
                          jobs[j] < jobs[k] \/ (jobs[j] = jobs[k] /\ j <= k)
         IN  <<first>> \o SortedDue(js \ {first})

MainFreeThreaded == TRUE

\* check_stocks is called in the thread of main, directly (line 179) and by
\* run_pending (line 184): main goes on when the call has returned
MainFree == inflight = 0

SchedFrame == <<alertVars, batchVars, cacheVars, th, storeVars, cycleVars>>

InitSched ==
    /\ AlertOff /\ BatchOff
    /\ cache = << >> /\ calls = 0 /\ fetches = 0 /\ lastCall = << >> /\ lastStore = << >>
    /\ th = << >>
    /\ stocks = {} /\ targets = << >> /\ alert_history = << >>
    /\ SqliteOff
    /\ config = << >> /\ stockList = << >> /\ idx = 0 /\ symbolSet = {}
    /\ email_success = FALSE /\ telegram_success = FALSE /\ raised = FALSE
    /\ rowsBefore = 0 /\ loaded = {} /\ emailCalls = << >> /\ telegramCalls = << >>
    /\ now \in 0..(Day - 1)
    /\ jobs = [j \in Jobs |-> NextRun(j, now)]
    /\ runnable = << >>
    /\ inflight = 0
    /\ pc = "startup"

\* time passes, also while a cycle runs
Hour ==
    /\ now < MaxHours
    /\ pc # "stopped"
    /\ now' = now + 1
    /\ UNCHANGED <<cache, calls, fetches, lastCall, lastStore, th, alertVars, batchVars,
                   storeVars, cycleVars, schedVars, pc>>

\* line 179: the check at start-up
StartupCheck ==
    /\ pc = "startup"
    /\ inflight' = inflight + 1
    /\ pc' = "startup_call"
    /\ UNCHANGED <<jobs, runnable, SchedFrame>>

\* a check_stocks call returns
Return ==
    /\ inflight > 0
    /\ inflight' = inflight - 1
    /\ UNCHANGED <<jobs, runnable, pc, SchedFrame>>

\* main enters the loop of lines 183-185
EnterLoop ==
    /\ pc = "startup_call"
    /\ MainFree
    /\ pc' = "loop"
    /\ UNCHANGED <<schedVars, SchedFrame>>

\* schedule.run_pending() collects the jobs that are due
RunPending ==
    /\ pc = "loop"
    /\ MainFree
    /\ runnable' = SortedDue({j \in Jobs : Due(j)})
    /\ pc' = "run"
    /\ UNCHANGED <<jobs, inflight, SchedFrame>>

\* run_pending runs the next due job: Job.run calls check_stocks
RunJob ==
    /\ pc = "run"
    /\ MainFree
    /\ runnable # << >>
    /\ inflight' = inflight + 1
    /\ pc' = "job_call"
    /\ UNCHANGED <<jobs, runnable, SchedFrame>>

\* Job.run after the call: the job is scheduled for its next day
JobDone ==
    /\ pc = "job_call"
    /\ MainFree
    /\ jobs' = [jobs EXCEPT ![Head(runnable)] = NextRun(Head(runnable), now)]
    /\ runnable' = Tail(runnable)
    /\ pc' = "run"
    /\ UNCHANGED <<inflight, SchedFrame>>

\* line 185: time.sleep(60), and the loop goes round
Sleep ==
    /\ pc = "run"
    /\ MainFree
    /\ runnable = << >>
    /\ pc' = "loop"
    /\ UNCHANGED <<schedVars, SchedFrame>>

\* lines 186-188: Ctrl+C inside the loop ends the process, and with it a
\* call in flight
Interrupt ==
    /\ pc \in {"loop", "run", "job_call"}
    /\ pc' = "stopped"
    /\ inflight' = 0
    /\ UNCHANGED <<jobs, runnable, SchedFrame>>

NextSched ==
    \/ Hour
    \/ StartupCheck
    \/ Return
    \/ EnterLoop
    \/ RunPending
    \/ RunJob
    \/ JobDone
    \/ Sleep
    \/ Interrupt

SpecSched == InitSched /\ [][NextSched]_vars

\* C15: at most one check_stocks call is in flight, and a call begins only
\* when none is.
C15_OneCycleInFlight ==
    /\ inflight <= 1
    /\ pc \in {"startup_call", "job_call"} \/ inflight = 0

\* a job came due while the call of another job was in flight
C15_Witness ==
    /\ pc = "job_call" /\ inflight = 1
    /\ \E j \in Jobs : Due(j) /\ j # Head(runnable)

----------------------------------------------------------------------------
\* Specification Spec: the daemon runs check_stocks cycle after cycle on the
\* store, while the web application toggles targets.  The store starts with
\* the targets of one stock added before those of the next.  Each store access of
\* the cycle is one step; an access that raises ends the cycle in the
\* except clause of check_stocks.

DaemonTypes == {"Buy"}
\* the quote, and target prices below and above it
Quote == MaxPrice
DaemonPrices == {Quote - 1, Quote + 1}
\* the answer of the quote provider for a symbol: no price, or the quote
Quotes == [Symbols -> {None, Some(Quote)}]
Configs == [email : BOOLEAN, telegram : BOOLEAN]

StockTables == {{}, {[id |-> 1, symbol |-> "AAPL"]},
                {[id |-> 1, symbol |-> "MSFT"], [id |-> 2, symbol |-> "AAPL"]}}
TargetRows(ids) ==
    [stock_id : ids, target_type : DaemonTypes, target_price : DaemonPrices,
     trim_percentage : {None}, alert_note : {None}, is_active : BOOLEAN]

Init ==
    /\ stocks \in StockTables
    /\ targets \in UNION {[1..n -> TargetRows({r.id : r \in stocks})] : n \in 0..MaxTargets}
    /\ \A i, j \in DOMAIN targets : i <= j => targets[i].stock_id <= targets[j].stock_id
    /\ alert_history = << >>
    /\ SqliteOff
    /\ config = [email |-> FALSE, telegram |-> FALSE]
    /\ stockList = << >>
    /\ idx = 0
    /\ symbolSet = {}
    /\ email_success = FALSE
    /\ telegram_success = FALSE
    /\ raised = FALSE
    /\ rowsBefore = 0
    /\ loaded = {}
    /\ emailCalls = << >>
    /\ telegramCalls = << >>
    /\ watchlist = << >>
    /\ prices = << >>
    /\ alerts = << >>
    /\ pc = "idle"
    /\ AlertOff
    /\ CacheOff
    /\ SchedOff

FetcherFrame == <<alertVars, now, fetches, th, schedVars>>
CallFrame == <<calls, lastStore>>
DaemonFrame == <<FetcherFrame, CallFrame, cache, lastCall>>

KeptCache == cache

\* StockFetcher(): self._cache = {}
FreshCache == << >>

RaiseIsSkipped ==
    /\ raised' = TRUE
    /\ pc' = "email"

RaisePropagates ==
    /\ raised' = TRUE
    /\ pc' = "crashed"

\* the except clause of check_stocks: log, and the cycle is over
Raise ==
    /\ raised' = TRUE
    /\ pc' = "done"

\* PATCH /api/targets/<id>/toggle, at any moment of a cycle
ToggleTargetActive ==
    /\ \E id \in DOMAIN targets : targets' = toggle_target_active(id)
    /\ UNCHANGED <<stocks, alert_history, sqlite_sequence, foreign_keys, cycleVars, batchVars, pc,
                   DaemonFrame>>

\* lines 36-47: a cycle starts with fresh components and its own Config,
\* and loads the stocks
StartCycle ==
    /\ pc \in {"idle", "done"}
    /\ Len(alert_history) <= MaxRows
    /\ rowsBefore' = Len(alert_history)
    /\ config' \in Configs
    /\ watchlist' = << >> /\ prices' = << >> /\ alerts' = << >>
    /\ symbolSet' = {} /\ loaded' = {}
    /\ emailCalls' = << >> /\ telegramCalls' = << >>
    /\ email_success' = FALSE /\ telegram_success' = FALSE
    /\ idx' = 1
    /\ \/ /\ stockList' = get_all_stocks
          /\ raised' = FALSE
          /\ pc' = IF get_all_stocks = << >> THEN "done" ELSE "load"
       \/ /\ stockList' = << >>
          /\ Raise
    /\ cache' = FreshCache
    /\ lastCall' = << >>
    /\ calls' = 0
    /\ lastStore' = << >>
    /\ UNCHANGED <<storeVars, FetcherFrame>>

\* lines 53-73: one round of the loop over stocks
LoadTargets ==
    /\ pc = "load"
    /\ LET stock == stockList[idx]
           entries == EntriesOf(stock, ActiveTargets(get_targets_for_stock(stock.id)))
       IN  \/ /\ symbolSet' = symbolSet \cup {stock.symbol}
              /\ watchlist' = watchlist \o entries
              /\ loaded' = loaded \cup
                     {[target_id |-> i, symbol |-> stock.symbol,
                       target_type |-> targets[i].target_type,
                       target_price |-> targets[i].target_price] :
                         i \in {j \in DOMAIN targets : /\ targets[j].stock_id = stock.id
                                                       /\ targets[j].is_active}}
              /\ idx' = idx + 1
              /\ pc' = IF idx < Len(stockList) THEN "load"
                       ELSE IF watchlist \o entries = << >> THEN "done"
                       ELSE "fetch"
              /\ UNCHANGED raised
           \/ /\ symbolSet' = symbolSet \cup {stock.symbol}
              /\ Raise
              /\ UNCHANGED <<watchlist, loaded, idx>>
    /\ UNCHANGED <<storeVars, config, stockList, email_success, telegram_success, rowsBefore,
                   emailCalls, telegramCalls, prices, alerts, DaemonFrame>>

\* the upstream requests of one run of fetch_prices: the tickers of each
\* yf.download call, whether it raised, and per symbol the number of
\* get_current_price calls of the except clause, which runs when
\* yf.download raises
fetch_prices_always_falls_back(symbols, download_raises) ==
    [download |-> <<{symbols[i] : i \in DOMAIN symbols}>>, raised |-> download_raises,
     history |-> [s \in Symbols |-> Count(symbols, s)]]

fetch_prices_requests(symbols, download_raises) ==
    [download |-> <<{symbols[i] : i \in DOMAIN symbols}>>, raised |-> download_raises,
     history |-> [s \in Symbols |-> IF download_raises THEN Count(symbols, s) ELSE 0]]
NoRequests == [download |-> << >>, raised |-> FALSE, history |-> [s \in Symbols |-> 0]]

\* line 78: prices = stock_fetcher.get_multiple_prices(list(symbols)) on the
\* StockFetcher built for this cycle.  yf.download returns or raises, and
\* upstream is the price the provider has for each symbol, in the download
\* or in the history of the symbol.  calls counts the get_multiple_prices
\* calls of the cycle, lastStore holds the upstream requests of the call,
\* and lastCall records what the quote provider answers during this cycle
FetchPrices ==
    /\ pc = "fetch"
    /\ \E symlist \in SymbolLists, upstream \in Quotes, download_raises \in BOOLEAN :
           /\ Len(symlist) = Cardinality(symbolSet)
           /\ {symlist[i] : i \in DOMAIN symlist} = symbolSet
           /\ LET r == get_multiple("prices_", cache, now, symlist, upstream)
              IN  /\ prices' = r.data /\ cache' = r.cache
                  /\ lastStore' = IF r.fetched THEN fetch_prices_requests(symlist, download_raises)
                                  ELSE NoRequests
           /\ lastCall' = [quotes |-> fetch_batch(symlist, upstream)]
    /\ calls' = calls + 1
    /\ pc' = "check"
    /\ UNCHANGED <<storeVars, cycleVars, watchlist, alerts, FetcherFrame>>

\* lines 81-84 and 153-154; the requests of the price fetch are kept until
\* check_all_alerts has taken the prices
CheckAlerts ==
    /\ pc = "check"
    /\ alerts' = check_all_alerts(watchlist, prices)
    /\ idx' = 1
    /\ pc' = IF check_all_alerts(watchlist, prices) = << >> THEN "done" ELSE "record"
    /\ lastStore' = << >>
    /\ UNCHANGED <<storeVars, config, stockList, symbolSet, email_success, telegram_success,
                   raised, rowsBefore, loaded, emailCalls, telegramCalls, watchlist, prices,
                   FetcherFrame, calls, cache, lastCall>>

\* lines 87-105: one round of the loop over alerts
RecordAlert ==
    /\ pc = "record"
    /\ LET alert == alerts[idx]
           m == matching_entry(watchlist, alert)
       IN  \/ /\ alert_history' =
                     IF IsNone(m) THEN alert_history
                     ELSE create_alert_history(Val(m).stock_id, Val(m).target_id,
                                               alert.current_price, alert.target_price,
                                               alert.target_type, Val(m).alert_note, FALSE)
              /\ idx' = idx + 1
              /\ pc' = IF idx < Len(alerts) THEN "record" ELSE "email"
              /\ UNCHANGED raised
           \/ /\ ~IsNone(m)
              /\ Raise
              /\ UNCHANGED <<alert_history, idx>>
    /\ UNCHANGED <<stocks, targets, sqlite_sequence, foreign_keys, config, stockList, symbolSet,
                   email_success, telegram_success, rowsBefore, loaded, emailCalls,
                   telegramCalls, batchVars, DaemonFrame>>

\* lines 131-136: the email channel, when sender and recipient are configured
SendEmail ==
    /\ pc = "email"
    /\ IF config.email
       THEN \E outcome \in Transports :
                LET r == send_alert(outcome)
                IN  /\ emailCalls' = emailCalls \o SendMultipleAlerts(alerts)
                    /\ IF r.raises
                       THEN Raise /\ UNCHANGED email_success
                       ELSE /\ email_success' = r.ok
                            /\ pc' = "telegram"
                            /\ UNCHANGED raised
       ELSE /\ pc' = "telegram"
            /\ UNCHANGED <<emailCalls, email_success, raised>>
    /\ UNCHANGED <<storeVars, config, stockList, idx, symbolSet, telegram_success,
                   rowsBefore, loaded, telegramCalls, batchVars, DaemonFrame>>

\* lines 139-152: the Telegram channel, when bot token and chat id are configured
SendTelegram ==
    /\ pc = "telegram"
    /\ IF config.telegram
       THEN \E outcome \in Transports :
                LET r == send_message(outcome)
                IN  /\ telegramCalls' = telegramCalls \o SendMultipleAlerts(alerts)
                    /\ IF r.raises
                       THEN Raise /\ UNCHANGED telegram_success
                       ELSE /\ telegram_success' = r.ok
                            /\ pc' = "done"
                            /\ UNCHANGED raised
       ELSE /\ pc' = "done"
            /\ UNCHANGED <<telegramCalls, telegram_success, raised>>
    /\ UNCHANGED <<storeVars, config, stockList, idx, symbolSet, email_success,
                   rowsBefore, loaded, emailCalls, batchVars, DaemonFrame>>

Next ==
    \/ StartCycle
    \/ LoadTargets
    \/ FetchPrices
    \/ CheckAlerts
    \/ RecordAlert
    \/ SendEmail
    \/ SendTelegram
    \/ ToggleTargetActive

Spec == Init /\ [][Next]_vars
\* the targets the running cycle loaded as active, and the rows it wrote
LoadedIds == {l.target_id : l \in loaded}
RowsOfCycle == {i \in DOMAIN alert_history : i > rowsBefore}
FromLoaded(alert) ==
    \E l \in loaded : /\ l.symbol = alert.symbol
                      /\ l.target_type = alert.target_type
                      /\ l.target_price = alert.target_price

\* C9: in every cycle the watch entries, the alerts, the AlertHistory rows
\* and the alerts handed to the channels all come from targets whose
\* is_active was true when the cycle loaded them; a target that was
\* inactive at that moment gets none of them in that cycle.
C9_OnlyActiveTargets ==
    /\ \A i \in DOMAIN watchlist :
           /\ watchlist[i].target_id \in LoadedIds
           /\ FromLoaded(watchlist[i])
    /\ Len(watchlist) <= Cardinality(loaded)
    /\ \A i \in DOMAIN alerts : FromLoaded(alerts[i])
    /\ Len(alerts) <= Cardinality(loaded)
    /\ \A i \in RowsOfCycle : alert_history[i].target_id \in LoadedIds
    /\ \A k \in DOMAIN emailCalls : \A i \in DOMAIN emailCalls[k] :
           FromLoaded(emailCalls[k][i])
    /\ \A k \in DOMAIN telegramCalls : \A i \in DOMAIN telegramCalls[k] :
           FromLoaded(telegramCalls[k][i])

\* a second cycle has notified about another target, and a target that got
\* a row in the first cycle and was toggled inactive before the second one
\* loaded it gets nothing in the second, although its condition holds
C9_Witness ==
    /\ pc = "done" /\ ~raised
    /\ emailCalls # << >>
    /\ \E i \in DOMAIN targets :
           /\ ~targets[i].is_active
           /\ i \notin LoadedIds
           /\ \E r \in DOMAIN alert_history :
                  r <= rowsBefore /\ alert_history[r].target_id = i
           /\ \A r \in RowsOfCycle : alert_history[r].target_id # i
           /\ Triggers([symbol |-> StockRow(targets[i].stock_id).symbol,
                        target_type |-> targets[i].target_type,
                        target_price |-> targets[i].target_price])

\* what a channel has received when the cycle is over
Configured(channel) == IF channel = "email" THEN config.email ELSE config.telegram
CallsOf(channel) == IF channel = "email" THEN emailCalls ELSE telegramCalls
Channels == {"email", "telegram"}
CycleOver == pc = "done"

\* C10 as stated: whenever a cycle in which an alert triggered is over, each
\* configured channel has got exactly one call with all alerts, and in a
\* cycle without alerts no channel has got a call.
C10_OneCallPerChannel ==
    CycleOver =>
        \A channel \in Channels :
            CallsOf(channel) = IF alerts # << >> /\ Configured(channel)
                               THEN <<alerts>> ELSE << >>

\* C10, amended: the same when every AlertHistory row of the cycle was
\* written; when a store access raised, or no alert triggered, no channel
\* has got a call.
C10_OneCallUnlessRaised ==
    CycleOver =>
        \A channel \in Channels :
            CallsOf(channel) = IF alerts # << >> /\ ~raised /\ Configured(channel)
                               THEN <<alerts>> ELSE << >>

\* a cycle with two alerts is over and both channels got them in one call
C10_Witness ==
    /\ CycleOver /\ ~raised
    /\ Len(alerts) = 2
    /\ emailCalls = <<alerts>>
    /\ telegramCalls = <<alerts>>
\* C11: a channel that fails neither raises out of the cycle nor ends it:
\* after a failed email send the cycle goes on to the Telegram channel, and
\* when the cycle is over without an exception every configured channel has
\* been called, whatever the other one returned.
C11_FailureDoesNotBlock ==
    /\ (emailCalls # << >> \/ telegramCalls # << >>) => ~raised
    /\ emailCalls # << >> => pc \in {"telegram", "done"}
    /\ pc = "done" /\ emailCalls # << >> /\ config.telegram => telegramCalls = <<alerts>>
    /\ pc = "done" /\ telegramCalls # << >> /\ config.email => emailCalls = <<alerts>>

\* the email send failed and the Telegram send of the same cycle succeeded
C11_Witness ==
    /\ pc = "done" /\ ~raised
    /\ emailCalls = <<alerts>> /\ ~email_success
    /\ telegramCalls = <<alerts>> /\ telegram_success
\* at least one channel reported success in the running cycle
AnySuccess == email_success \/ telegram_success

\* C12 as stated: when a cycle with alerts is over, the rows it wrote carry
\* email_sent = TRUE if a channel reported success, and FALSE if none was
\* attempted or none succeeded.
C12_FlagReflectsDispatch ==
    pc = "done" /\ ~raised /\ alerts # << >> =>
        \A i \in RowsOfCycle : alert_history[i].email_sent = AnySuccess

\* what the code does: every row is written with email_sent = FALSE before
\* the channels are called and is never written again
C12_FlagStaysFalse ==
    \A i \in DOMAIN alert_history : ~alert_history[i].email_sent

\* a cycle wrote a row, a channel reported success, and the cycle is over
C12_Witness ==
    /\ pc = "done" /\ ~raised
    /\ RowsOfCycle # {}
    /\ AnySuccess
\* the places check_stocks and the scheduling loop of main can be at
DaemonPcs == {"idle", "load", "fetch", "check", "record", "email", "telegram", "done"}

\* C13: an exception raised by a step of check_stocks ends that call in its
\* except clause: the daemon is back in its scheduling loop, and the next
\* cycle can start.
C13_ExceptionIsCaught ==
    /\ pc \in DaemonPcs
    /\ raised => pc = "done"
    /\ pc = "done" /\ Len(alert_history) <= MaxRows => ENABLED StartCycle

\* writing a history row raised after alerts had triggered, and the daemon
\* is ready for the next cycle
C13_Witness ==
    /\ raised /\ pc = "done"
    /\ alerts # << >>
    /\ ENABLED StartCycle
\* the cycle has fetched its prices
PricesFetched == pc \in {"check", "record", "email", "telegram"} \/ (pc = "done" /\ lastCall # << >>)

\* C14: a cycle starts with an empty price cache, the prices it evaluates
\* are the quotes obtained during this cycle, and its alerts are the result
\* of check_all_alerts on the targets it loaded and those quotes alone.
C14_NoCarryOver ==
    /\ pc = "load" => cache = << >>
    /\ PricesFetched => prices = lastCall.quotes
    /\ alerts # << >> => alerts = check_all_alerts(watchlist, lastCall.quotes)
    /\ pc \in {"record", "email", "telegram"} =>
           alerts = check_all_alerts(watchlist, lastCall.quotes)

\* a target that got a row in an earlier cycle triggers again and gets
\* another row in the running cycle
C14_Witness ==
    /\ pc = "done" /\ ~raised
    /\ \E r1, r2 \in DOMAIN alert_history :
           /\ r1 <= rowsBefore /\ rowsBefore < r2
           /\ alert_history[r1].target_id = alert_history[r2].target_id

\* the rows the running cycle has written, and what the row of an alert
\* has to carry
CycleRows == Len(alert_history) - rowsBefore
RowCarries(row, alert) ==
    \E i \in DOMAIN watchlist :
        LET m == watchlist[i]
        IN
        /\ Matches(m, alert)
        /\ \A j \in 1..(i - 1) : ~Matches(watchlist[j], alert)
        /\ row.stock_id = m.stock_id
        /\ row.target_id = m.target_id
        /\ row.alert_note = m.alert_note
        /\ row.current_price = alert.current_price
        /\ row.target_price = alert.target_price
        /\ row.target_type = alert.target_type

\* C23 as stated: when a cycle is over it has written one row per alert,
\* and the row of an alert carries the ids and the note of the first watch
\* entry that matches the alert, and the prices and the type of the alert.
C23_RowPerAlert ==
    CycleOver =>
        /\ CycleRows = Len(alerts)
        /\ \A k \in DOMAIN alerts : RowCarries(alert_history[rowsBefore + k], alerts[k])

\* C23, amended: the same for a cycle in which no store access raised; a
\* cycle that raised has written such rows for the alerts before the one
\* whose write raised, and none for the others.
C23_RowPerAlertUnlessRaised ==
    CycleOver =>
        /\ CycleRows <= Len(alerts)
        /\ ~raised => CycleRows = Len(alerts)
        /\ \A k \in 1..CycleRows : RowCarries(alert_history[rowsBefore + k], alerts[k])

\* a cycle with two alerts of two targets of equal type and price is over:
\* both rows carry the id of the first of the two targets
C23_Witness ==
    /\ CycleOver /\ ~raised
    /\ Len(alerts) = 2 /\ CycleRows = 2
    /\ Len(watchlist) = 2 /\ watchlist[1].target_id # watchlist[2].target_id
    /\ alert_history[rowsBefore + 1].target_id = watchlist[1].target_id
    /\ alert_history[rowsBefore + 2].target_id = watchlist[1].target_id

\* the symbols the watch entries of the cycle reference
WatchSymbols == {watchlist[i].symbol : i \in DOMAIN watchlist}

\* C24 as stated: the symbols whose prices the cycle has fetched are the
\* symbols of its watch entries, and a stock without an active target
\* contributes none.
C24_FetchesWatchedSymbols ==
    pc = "check" => symbolSet = WatchSymbols

\* what the code does: symbols.add(stock.symbol) comes before the targets
\* of the stock are looked at, so the cycle fetches the symbol of every
\* stock of the store
C24_FetchesEveryStock ==
    pc = "check" =>
        /\ symbolSet = {stockList[i].symbol : i \in DOMAIN stockList}
        /\ WatchSymbols \subseteq symbolSet

\* the cycle has fetched the price of a stock that has no watch entry
C24_Witness ==
    /\ pc = "check"
    /\ prices # << >>
    /\ symbolSet \ WatchSymbols # {}

\* C25: a cycle calls get_multiple_prices at most once, and it reaches the
\* end without a call only with an empty watch list or after an exception.
\* The call makes one yf.download request, for all symbols of the cycle; it
\* asks for single symbols only when that request raised, and then once for
\* each symbol.
C25_OneBatchedFetch ==
    [][/\ calls' <= 1
       /\ (pc' \in {"check", "record", "email", "telegram"}) => calls' = 1
       /\ (pc' = "done" /\ calls' = 0) => (watchlist' = << >> \/ raised')
       /\ (pc = "fetch" /\ pc' = "check") =>
              /\ Len(lastStore'.download) = 1
              /\ lastStore'.download[1] = symbolSet
              /\ \A s \in Symbols :
                     lastStore'.history[s] =
                         IF lastStore'.raised /\ s \in symbolSet THEN 1 ELSE 0]_vars

\* the batched request of a cycle with two symbols raised, and each of the
\* symbols was asked for once
C25_Witness ==
    /\ pc = "check" /\ calls = 1
    /\ lastStore.raised
    /\ Len(lastStore.download) = 1
    /\ Cardinality(symbolSet) = 2
    /\ \A s \in symbolSet : lastStore.history[s] = 1

\* a channel has been invoked in the running cycle
ChannelInvoked == emailCalls # << >> \/ telegramCalls # << >>

\* C27: a channel is invoked only after every alert of the cycle has its
\* row, and what it gets is all alerts in one call; a cycle in which a
\* store access raised invokes no channel and keeps the rows it has written.
C27_PersistBeforeNotify ==
    /\ ChannelInvoked => (~raised /\ CycleRows = Len(alerts))
    /\ \A channel \in Channels : CallsOf(channel) \in {<< >>, <<alerts>>}
    /\ pc \in {"email", "telegram"} => CycleRows = Len(alerts)
    /\ raised =>
           /\ ~ChannelInvoked
           /\ CycleRows <= Len(alerts)
           /\ \A k \in 1..CycleRows : RowCarries(alert_history[rowsBefore + k], alerts[k])

\* the second of two alerts could not be written: the first has its row
\* and no channel was invoked
C27_Witness ==
    /\ pc = "done" /\ raised
    /\ config.email /\ config.telegram
    /\ Len(alerts) = 2
    /\ CycleRows = 1
    /\ ~ChannelInvoked

----------------------------------------------------------------------------
\* Specification SpecStore: the commands that create and change targets: the
\* CLI command add, POST /api/stocks, POST /api/stocks/<id>/targets and
\* PUT /api/targets/<id>.  Each command is one step; every db_manager method
\* it calls is a transaction of its own (get_connection), and a method that
\* raises ends the command with what the earlier methods committed.
\* lastCall records the command and whether it reported success.

\* what the commands are given as target type and price
CliTypes == {"DCA", "dca", "Trim", "Hold"}
WebTypes == {None, Some("Trim"), Some("Hold")}
ReqPrices == {0 - 1, 0, 1}
WebPrices == {None} \cup {Some(p) : p \in ReqPrices}

\* click.Choice(['Buy', 'Sell', 'DCA', 'Trim'], case_sensitive=False): the
\* choice the argument names, if any
Lower(x) == IF x \in {"DCA", "dca", "Dca"} THEN "dca"
            ELSE IF x \in {"Trim", "trim"} THEN "trim"
            ELSE IF x \in {"Buy", "buy"} THEN "buy"
            ELSE IF x \in {"Sell", "sell"} THEN "sell"
            ELSE "hold"
Choice(x) == IF \E c \in TargetTypes : Lower(c) = Lower(x)
             THEN Some(CHOOSE c \in TargetTypes : Lower(c) = Lower(x))
             ELSE None

\* str.capitalize(): first character upper case, the rest lower case
Capitalize(x) == IF Lower(x) = "dca" THEN "Dca"
                 ELSE IF Lower(x) = "trim" THEN "Trim"
                 ELSE IF Lower(x) = "buy" THEN "Buy"
                 ELSE IF Lower(x) = "sell" THEN "Sell"
                 ELSE "Hold"

\* Python truth value of an optional number and of an optional string
TruthyNumber(o) == ~IsNone(o) /\ Val(o) # 0
TruthyString(o) == ~IsNone(o) /\ Val(o) # ""

\* DatabaseManager.get_stock_by_symbol and get_stock_by_id on table st
get_stock_by_symbol(st, symbol) ==
    IF \E r \in st : r.symbol = symbol
    THEN Some(CHOOSE r \in st : r.symbol = symbol) ELSE None
get_stock_by_id(st, id) ==
    IF \E r \in st : r.id = id THEN Some(CHOOSE r \in st : r.id = id) ELSE None

\* A table with an AUTOINCREMENT key is a function from the ids of its rows;
\* seq is sqlite_sequence, and an id it has given out is never given again.
NoSequence == [stocks |-> 0, targets |-> 0, alert_history |-> 0]

\* DatabaseManager.create_stock: the table afterwards
create_stock(st, seq, symbol) == st \cup {[id |-> seq.stocks + 1, symbol |-> symbol]}

\* DatabaseManager.create_target: the INSERT violates NOT NULL when type or
\* price is None, and then raises with the table unchanged
create_target(ts, seq, stock_id, target_type, target_price, trim_percentage) ==
    IF IsNone(target_type) \/ IsNone(target_price)
    THEN [ok |-> FALSE, targets |-> ts, seq |-> seq]
    ELSE [ok |-> TRUE,
          targets |-> ((seq.targets + 1) :>
                           [stock_id |-> stock_id, target_type |-> Val(target_type),
                            target_price |-> Val(target_price),
                            trim_percentage |-> trim_percentage,
                            alert_note |-> None, is_active |-> TRUE]) @@ ts,
          seq |-> [seq EXCEPT !.targets = @ + 1]]

\* table t without the rows of the ids in gone
Without(t, gone) == [i \in DOMAIN t \ gone |-> t[i]]

\* DatabaseManager.delete_stock: DELETE FROM stocks WHERE id = ?.  The
\* schema declares targets.stock_id, alert_history.stock_id and
\* alert_history.target_id with ON DELETE CASCADE, which SQLite applies
\* only on a connection that enforces foreign keys (fk).
delete_stock(st, ts, ah, fk, stock_id) ==
    LET gone == {i \in DOMAIN ts : ts[i].stock_id = stock_id}
    IN  [ok |-> \E r \in st : r.id = stock_id,
         stocks |-> {r \in st : r.id # stock_id},
         targets |-> IF fk /\ \E r \in st : r.id = stock_id
                     THEN Without(ts, gone) ELSE ts,
         alert_history |->
             IF fk /\ \E r \in st : r.id = stock_id
             THEN Without(ah, {i \in DOMAIN ah : \/ ah[i].stock_id = stock_id
                                                   \/ ah[i].target_id \in gone})
             ELSE ah]

delete_target_with_history(ts, ah, fk, target_id) ==
    [ok |-> target_id \in DOMAIN ts,
     targets |-> Without(ts, {target_id}),
     alert_history |-> Without(ah, {i \in DOMAIN ah : ah[i].target_id = target_id})]

\* DatabaseManager.delete_target: DELETE FROM targets WHERE id = ?
delete_target(ts, ah, fk, target_id) ==
    [ok |-> target_id \in DOMAIN ts,
     targets |-> Without(ts, {target_id}),
     alert_history |->
         IF fk /\ target_id \in DOMAIN ts
         THEN Without(ah, {i \in DOMAIN ah : ah[i].target_id = target_id}) ELSE ah]

\* DatabaseManager.delete_alert_history: DELETE FROM alert_history WHERE id = ?
delete_alert_history(ah, alert_id) ==
    [ok |-> alert_id \in DOMAIN ah,
     alert_history |-> Without(ah, {alert_id})]

\* DatabaseManager.update_target(target_id, target_price, alert_note=None,
\* trim_percentage): whether a row was updated, and the table afterwards
update_target(ts, target_id, target_price, trim_percentage) ==
    IF IsNone(target_price) /\ IsNone(trim_percentage)
    THEN [ok |-> FALSE, targets |-> ts]
    ELSE IF target_id \notin DOMAIN ts
    THEN [ok |-> FALSE, targets |-> ts]
    ELSE [ok |-> TRUE,
          targets |->
              [ts EXCEPT ![target_id] =
                  [@ EXCEPT !.target_price =
                                IF IsNone(target_price) THEN @ ELSE Val(target_price),
                            !.trim_percentage =
                                IF IsNone(trim_percentage) THEN @ ELSE trim_percentage]]]

\* StockService._calculate_target_status: difference_percent is
\* (current_price - target_price) / target_price * 100, and the division
\* raises ZeroDivisionError for a target price of zero
difference_percent(cur, target_price) ==
    IF target_price = 0 THEN None
    ELSE Some(((cur - target_price) * 100) \div target_price)

\* the loop of create_stock_with_targets over the target dicts: it ends at
\* the first create_target that raises (a missing key raises as well)
RECURSIVE CreateTargets(_, _, _, _)
CreateTargets(ts, seq, stock_id, tds) ==
    IF tds = << >> THEN [ok |-> TRUE, targets |-> ts, seq |-> seq]
    ELSE LET r == create_target(ts, seq, stock_id, Head(tds).target_type,
                                Head(tds).target_price, Head(tds).trim_percentage)
         IN  IF r.ok THEN CreateTargets(r.targets, r.seq, stock_id, Tail(tds))
             ELSE [ok |-> FALSE, targets |-> ts, seq |-> seq]

\* StockService.create_stock_with_targets: ValueError for a known symbol;
\* else the stock, then the targets, then the tags, each in a transaction
\* of its own
create_stock_with_targets(st, ts, seq, symbol, tds, tags_ok) ==
    IF ~IsNone(get_stock_by_symbol(st, symbol))
    THEN [ok |-> FALSE, stocks |-> st, targets |-> ts, seq |-> seq]
    ELSE LET r == CreateTargets(ts, [seq EXCEPT !.stocks = @ + 1], seq.stocks + 1, tds)
         IN  [ok |-> r.ok /\ tags_ok, stocks |-> create_stock(st, seq, symbol),
              targets |-> r.targets, seq |-> r.seq]

\* the JSON bodies of the target requests, and the target dicts of
\* POST /api/stocks
TargetData == [target_type : WebTypes, target_price : WebPrices, trim_percentage : TrimValues]
StockTargetData ==
    [target_type : {None, Some("Trim")}, target_price : {Some(0), Some(1)},
     trim_percentage : TrimValues]
StoreSymbols == {"AAPL"}

InitStore ==
    /\ AlertOff /\ BatchOff
    /\ cache = << >> /\ now = 0 /\ calls = 0 /\ fetches = 0 /\ lastStore = << >>
    /\ th = << >>
    /\ stocks = {} /\ targets = << >> /\ alert_history = << >>
    /\ sqlite_sequence = NoSequence
    /\ foreign_keys \in BOOLEAN
    /\ config = << >> /\ stockList = << >> /\ idx = 0 /\ symbolSet = {}
    /\ email_success = FALSE /\ telegram_success = FALSE /\ raised = FALSE
    /\ rowsBefore = 0 /\ loaded = {} /\ emailCalls = << >> /\ telegramCalls = << >>
    /\ SchedOff
    /\ lastCall = << >>
    /\ pc = "store"

StoreFrame == <<alertVars, batchVars, cache, now, calls, fetches, lastStore, th,
                foreign_keys, cycleVars, schedVars, pc>>

\* cli.py add SYMBOL TARGET_TYPE TARGET_PRICE [--trim-percentage P]
CliAdd ==
    /\ pc = "store"
    /\ sqlite_sequence.targets < MaxTargets
    /\ \E symbol \in StoreSymbols, arg \in CliTypes, price \in ReqPrices, trim \in TrimValues :
           LET choice == Choice(arg)
               target_type == Capitalize(Val(choice))
               stock == get_stock_by_symbol(stocks, symbol)
               st == IF IsNone(stock) THEN create_stock(stocks, sqlite_sequence, symbol)
                     ELSE stocks
               seq == IF IsNone(stock) THEN [sqlite_sequence EXCEPT !.stocks = @ + 1]
                      ELSE sqlite_sequence
               stock_id == IF IsNone(stock) THEN sqlite_sequence.stocks + 1 ELSE Val(stock).id
               r == create_target(targets, seq, stock_id, Some(target_type), Some(price), trim)
           IN  IF IsNone(choice) \/ (target_type = "Trim" /\ IsNone(trim))
               THEN /\ lastCall' = [op |-> "cli_add", ok |-> FALSE]
                    /\ UNCHANGED <<stocks, targets, sqlite_sequence>>
               ELSE /\ stocks' = st
                    /\ targets' = r.targets
                    /\ sqlite_sequence' = r.seq
                    /\ lastCall' = [op |-> "cli_add", ok |-> r.ok]
    /\ UNCHANGED <<alert_history, StoreFrame>>

\* POST /api/stocks
CreateStock ==
    /\ pc = "store"
    /\ \E symbol \in StoreSymbols, n \in 0..(MaxTargets - sqlite_sequence.targets),
          tags_ok \in BOOLEAN :
           \E tds \in [1..n -> StockTargetData] :
               LET r == create_stock_with_targets(stocks, targets, sqlite_sequence, symbol,
                                                  tds, tags_ok)
               IN  /\ stocks' = r.stocks
                   /\ targets' = r.targets
                   /\ sqlite_sequence' = r.seq
                   /\ lastCall' = [op |-> "post_stock", ok |-> r.ok]
    /\ UNCHANGED <<alert_history, StoreFrame>>

\* POST /api/stocks/<stock_id>/targets
AddStockTarget ==
    /\ pc = "store"
    /\ sqlite_sequence.targets < MaxTargets
    /\ \E stock_id \in 1..MaxStocks, data \in TargetData :
           LET r == create_target(targets, sqlite_sequence, stock_id, data.target_type,
                                  data.target_price, data.trim_percentage)
           IN  IF \/ IsNone(get_stock_by_id(stocks, stock_id))
                  \/ ~TruthyString(data.target_type)
                  \/ ~TruthyNumber(data.target_price)
               THEN /\ lastCall' = [op |-> "post_target", ok |-> FALSE]
                    /\ UNCHANGED <<targets, sqlite_sequence>>
               ELSE /\ targets' = r.targets
                    /\ sqlite_sequence' = r.seq
                    /\ lastCall' = [op |-> "post_target", ok |-> r.ok]
    /\ UNCHANGED <<stocks, alert_history, StoreFrame>>

\* PUT /api/targets/<target_id>
UpdateTarget ==
    /\ pc = "store"
    /\ \E target_id \in 1..MaxTargets, price \in WebPrices, trim \in TrimValues :
           LET r == update_target(targets, target_id, price, trim)
           IN  /\ targets' = r.targets
               /\ lastCall' = [op |-> "put_target", ok |-> r.ok]
    /\ UNCHANGED <<stocks, alert_history, sqlite_sequence, StoreFrame>>

NextStore ==
    \/ CliAdd
    \/ CreateStock
    \/ AddStockTarget
    \/ UpdateTarget

SpecStore == InitStore /\ [][NextStore]_vars

\* the command that has just run, and the row it added
Ran(op) == lastCall' # << >> /\ lastCall'.op = op
Added == sqlite_sequence'.targets = sqlite_sequence.targets + 1
NewRow == targets'[sqlite_sequence'.targets]
StoreSame == stocks' = stocks /\ targets' = targets

\* C17 as stated: every stored Trim target has a trim_percentage.
C17_TrimHasPercentage ==
    \A i \in DOMAIN targets :
        targets[i].target_type = "Trim" => ~IsNone(targets[i].trim_percentage)

\* what the code does: only the CLI checks; a Trim target it adds has a
\* trim_percentage, and without one it stores nothing
C17_CliChecksTrim ==
    [][Ran("cli_add") =>
          /\ Added => (NewRow.target_type = "Trim" => ~IsNone(NewRow.trim_percentage))
          /\ ~lastCall'.ok => StoreSame]_vars

\* the CLI has added a Trim target with its percentage
C17_Witness ==
    /\ lastCall # << >> /\ lastCall.op = "cli_add" /\ lastCall.ok
    /\ targets[sqlite_sequence.targets].target_type = "Trim"
    /\ ~IsNone(targets[sqlite_sequence.targets].trim_percentage)

\* C18 as stated: every stored target_type is one of Buy, Sell, DCA, Trim.
C18_TypeIsValid ==
    \A i \in DOMAIN targets : targets[i].target_type \in TargetTypes

\* what the code does: the CLI stores the capitalized choice, the web
\* commands store the string of the request
C18_TypeAsGiven ==
    [][Added =>
          IF Ran("cli_add") THEN NewRow.target_type \in {Capitalize(c) : c \in TargetTypes}
          ELSE Some(NewRow.target_type) \in WebTypes]_vars

\* the CLI was given DCA and has stored a target
C18_Witness ==
    \E i \in DOMAIN targets : targets[i].target_type = Capitalize("DCA")

\* C19 as stated: every stored target_price is positive, so the
\* percentage difference of the status views is defined.
C19_PricePositive ==
    \A i \in DOMAIN targets :
        /\ targets[i].target_price > 0
        /\ \A cur \in PriceRange : ~IsNone(difference_percent(cur, targets[i].target_price))

\* what the code does: POST /api/stocks/<id>/targets refuses a zero price
\* (and no other), the other commands refuse none
C19_OnlyPostTargetRefusesZero ==
    [][Ran("post_target") /\ Added => NewRow.target_price # 0]_vars

\* POST /api/stocks/<id>/targets has stored a negative price
C19_Witness ==
    /\ lastCall # << >> /\ lastCall.op = "post_target" /\ lastCall.ok
    /\ targets[sqlite_sequence.targets].target_price < 0

\* C20 as stated: a command that reports a failure has left the store as
\* it was.
C20_AllOrNothing ==
    [][lastCall' # << >> /\ ~lastCall'.ok => StoreSame]_vars

\* what the code does: a command made of one db_manager method leaves the
\* store as it was when it fails, and so does POST /api/stocks when the
\* symbol is known
C20_OneMethodAllOrNothing ==
    [][/\ lastCall' # << >> /\ ~lastCall'.ok
       /\ \/ lastCall'.op \in {"post_target", "put_target"}
          \/ stocks' = stocks
       => targets' = targets /\ stocks' = stocks]_vars

\* POST /api/stocks has failed and left a stock with a target behind
C20_Witness ==
    /\ lastCall # << >> /\ lastCall.op = "post_stock" /\ ~lastCall.ok
    /\ stocks # {}
    /\ targets # << >>

\* daemon.py lines 50-70 on the store as it is: the watchlist a cycle
\* that starts now builds from the stocks in list sts
RECURSIVE BuildWatchlist(_)
BuildWatchlist(sts) ==
    IF sts = << >> THEN << >>
    ELSE EntriesOf(Head(sts), ActiveTargets(get_targets_for_stock(Head(sts).id)))
             \o BuildWatchlist(Tail(sts))

\* the alerts the cycle returns when every symbol has price cur
NextCycleAlerts(cur) ==
    check_all_alerts(BuildWatchlist(get_all_stocks), [s \in StoreSymbols |-> Some(cur)])
AlertFor(alert, row) ==
    /\ Lower(alert.target_type) = Lower(row.target_type)
    /\ alert.target_price = row.target_price

\* C26 as stated: an active DCA target that add has stored triggers in a
\* cycle in which the price of its symbol is at or below its target price.
C26_CliDcaTriggers ==
    \A i \in DOMAIN targets :
        (Lower(targets[i].target_type) = "dca" /\ targets[i].is_active) =>
            \A cur \in ReqPrices :
                cur <= targets[i].target_price =>
                    \E k \in DOMAIN NextCycleAlerts(cur) :
                        AlertFor(NextCycleAlerts(cur)[k], targets[i])

\* what the code does: add stores the type as "Dca", the cycle puts the
\* target on its watchlist, and check_alert returns no alert for it at any
\* price
C26_CliDcaNeverTriggers ==
    \A i \in DOMAIN targets :
        Lower(targets[i].target_type) = "dca" =>
            /\ targets[i].target_type = "Dca"
            /\ targets[i].is_active /\ (\E r \in stocks : r.id = targets[i].stock_id) =>
                   \E k \in DOMAIN BuildWatchlist(get_all_stocks) :
                       BuildWatchlist(get_all_stocks)[k].target_id = i
            /\ \A cur \in ReqPrices :
                   \A k \in DOMAIN NextCycleAlerts(cur) :
                       ~AlertFor(NextCycleAlerts(cur)[k], targets[i])

\* add AAPL DCA 1 has stored an active target, and a cycle finds its symbol
\* at the target price
C26_Witness ==
    /\ lastCall # << >> /\ lastCall.op = "cli_add" /\ lastCall.ok
    /\ \E i \in DOMAIN targets :
           /\ Lower(targets[i].target_type) = "dca" /\ targets[i].is_active
           /\ targets[i].target_price = 1
           /\ NextCycleAlerts(1) = << >>

----------------------------------------------------------------------------
\* Specification SpecCrud: the commands that delete, on a store that holds
\* a stock, a target and an AlertHistory row: DELETE /api/stocks/<id> (and
\* remove --delete-stock), DELETE /api/targets/<id>, DELETE /api/alerts/<id>,
\* together with the toggle and PUT /api/targets/<id>.

\* The store the commands find: what `add AAPL Buy 1` and a cycle at price 1
\* have left
SeedTarget ==
    [stock_id |-> 1, target_type |-> "Buy", target_price |-> 1, trim_percentage |-> None,
     alert_note |-> None, is_active |-> TRUE]
SeedAlert ==
    [stock_id |-> 1, target_id |-> 1, current_price |-> 1, target_price |-> 1,
     target_type |-> "Buy", alert_note |-> None, email_sent |-> FALSE]

InitCrud ==
    /\ AlertOff /\ BatchOff
    /\ cache = << >> /\ now = 0 /\ calls = 0 /\ fetches = 0 /\ lastStore = << >>
    /\ th = << >>
    /\ stocks = {[id |-> 1, symbol |-> "AAPL"]}
    /\ targets = <<SeedTarget>>
    /\ alert_history = <<SeedAlert>>
    /\ sqlite_sequence = [stocks |-> 1, targets |-> 1, alert_history |-> 1]
    /\ foreign_keys \in BOOLEAN
    /\ config = << >> /\ stockList = << >> /\ idx = 0 /\ symbolSet = {}
    /\ email_success = FALSE /\ telegram_success = FALSE /\ raised = FALSE
    /\ rowsBefore = 0 /\ loaded = {} /\ emailCalls = << >> /\ telegramCalls = << >>
    /\ SchedOff
    /\ lastCall = << >>
    /\ pc = "store"

\* PATCH /api/targets/<target_id>/toggle, as one of the store commands
ToggleTarget ==
    /\ pc = "store"
    /\ \E target_id \in 1..MaxTargets :
           /\ targets' = toggle_target_active(target_id)
           /\ lastCall' = [op |-> "toggle_target", ok |-> target_id \in DOMAIN targets]
    /\ UNCHANGED <<stocks, alert_history, sqlite_sequence, StoreFrame>>

\* DELETE /api/stocks/<stock_id>, and cli.py remove SYMBOL --delete-stock:
\* delete_stock for a stock that get_stock_by_id (get_stock_by_symbol) finds
DeleteStock ==
    /\ pc = "store"
    /\ \E stock_id \in 1..MaxStocks :
           LET r == delete_stock(stocks, targets, alert_history, foreign_keys, stock_id)
           IN  IF IsNone(get_stock_by_id(stocks, stock_id))
               THEN /\ lastCall' = [op |-> "delete_stock", ok |-> FALSE]
                    /\ UNCHANGED <<stocks, targets, alert_history>>
               ELSE /\ stocks' = r.stocks
                    /\ targets' = r.targets
                    /\ alert_history' = r.alert_history
                    /\ lastCall' = [op |-> "delete_stock", ok |-> r.ok]
    /\ UNCHANGED <<sqlite_sequence, StoreFrame>>

\* DELETE /api/targets/<target_id>
DeleteTarget ==
    /\ pc = "store"
    /\ \E target_id \in 1..MaxTargets :
           LET r == delete_target(targets, alert_history, foreign_keys, target_id)
           IN  /\ targets' = r.targets
               /\ alert_history' = r.alert_history
               /\ lastCall' = [op |-> "delete_target", ok |-> r.ok]
    /\ UNCHANGED <<stocks, sqlite_sequence, StoreFrame>>

\* DELETE /api/alerts/<alert_id>
DeleteAlert ==
    /\ pc = "store"
    /\ \E alert_id \in 1..(MaxRows + 1) :
           LET r == delete_alert_history(alert_history, alert_id)
           IN  /\ alert_history' = r.alert_history
               /\ lastCall' = [op |-> "delete_alert", ok |-> r.ok]
    /\ UNCHANGED <<stocks, targets, sqlite_sequence, StoreFrame>>

NextCrud ==
    \/ UpdateTarget
    \/ ToggleTarget
    \/ DeleteStock
    \/ DeleteTarget
    \/ DeleteAlert

SpecCrud == InitCrud /\ [][NextCrud]_vars

\* the targets of the stock a step deletes
Deleted == {r.id : r \in stocks \ stocks'}
Orphans(ts, ids) == {i \in DOMAIN ts : ts[i].stock_id \in ids}

\* C21 as stated: after delete_stock succeeds, no target that references
\* the deleted stock remains.
C21_TargetsDeletedWithStock ==
    [][Ran("delete_stock") /\ lastCall'.ok => Orphans(targets', Deleted) = {}]_vars

\* what the code does: no connection turns foreign keys on, so the targets
\* go with the stock only where SQLite enforces them by default, and stay
\* as they were everywhere else
C21_CascadeNeedsForeignKeys ==
    [][Ran("delete_stock") /\ lastCall'.ok =>
          /\ Deleted # {}
          /\ IF foreign_keys THEN Orphans(targets', Deleted) = {}
             ELSE targets' = targets]_vars

\* a stock was deleted and a target that references it is still stored
C21_Witness ==
    /\ lastCall # << >> /\ lastCall.op = "delete_stock" /\ lastCall.ok
    /\ stocks = {}
    /\ \E i \in DOMAIN targets : targets[i].stock_id = SeedTarget.stock_id

----------------------------------------------------------------------------
\* Specification SpecInfo: one get_multiple_info(symbols) call on a new
\* StockFetcher.  fetch_info submits one fetch_single_info per list element
\* to a ThreadPoolExecutor, which runs the queued futures in the order of
\* submission on at most max_workers threads; the futures complete in any
\* order, and the caller puts each result into info_dict as it completes.
\* Tickers are numbered; lastCall holds the list, the tickers whose
\* ticker.info fails, info_dict, and the value returned.

Tickers == 1..MaxInfoSyms
\* the lists of the requests: n tickers, and the same with the first ticker
\* once more at the end
InfoLists ==
    {[i \in 1..n |-> i] : n \in 0..MaxInfoSyms}
        \cup {[i \in 1..n |-> IF i = n THEN 1 ELSE i] : n \in 2..MaxInfoSyms}
\* the tickers whose ticker.info raises or is empty
FailingSets == SUBSET (1..2)
InfoKey == "info_"

\* fetch_single_info(symbol): (symbol, info), or (symbol, None) when
\* ticker.info raises or is no dict; the info is named by its symbol
fetch_single_info(symbol, failing) ==
    [symbol |-> symbol, info |-> IF symbol \in failing THEN None ELSE Some(symbol)]

\* info_dict[symbol] = info
DictSet(d, k, v) == (k :> v) @@ d

WorkerFreeAlways(futures) == TRUE

\* the executor starts a queued future when fewer than max_workers run
WorkerFree(futures) ==
    Cardinality({i \in DOMAIN futures : futures[i] = "running"}) < max_workers

InitInfo ==
    /\ AlertOff /\ BatchOff /\ DaemonOff
    /\ cache = << >> /\ now = 0 /\ calls = 0 /\ fetches = 0 /\ lastStore = << >>
    /\ th = << >>
    /\ \E symbols \in InfoLists, failing \in FailingSets :
           lastCall = [symbols |-> symbols, failing |-> failing, info_dict |-> << >>,
                       ret |-> None]
    /\ pc = "info"

InfoFrame == <<alertVars, batchVars, now, lastStore, daemonVars>>

\* lines 262-266 and 284-291: {} for an empty list; else the cache has no
\* entry for the key, fetch_info runs and submits all futures
SubmitAll ==
    /\ pc = "info"
    /\ calls' = calls + 1
    /\ IF lastCall.symbols = << >>
       THEN /\ lastCall' = [lastCall EXCEPT !.ret = Some(<< >>)]
            /\ pc' = "returned"
            /\ UNCHANGED <<th, fetches>>
       ELSE /\ ~CacheHit(cache, now, InfoKey, Some(60))
            /\ th' = [i \in DOMAIN lastCall.symbols |-> "queued"]
            /\ fetches' = fetches + 1
            /\ pc' = "pool"
            /\ UNCHANGED lastCall
    /\ UNCHANGED <<cache, InfoFrame>>

\* a worker thread takes the oldest queued future
StartFetch(i) ==
    /\ pc = "pool"
    /\ th[i] = "queued"
    /\ \A j \in 1..(i - 1) : th[j] # "queued"
    /\ WorkerFree(th)
    /\ th' = [th EXCEPT ![i] = "running"]
    /\ UNCHANGED <<cache, calls, fetches, lastCall, pc, InfoFrame>>

\* lines 293-300: a future completes, as_completed yields it, and the
\* caller stores its result
CompleteFetch(i) ==
    /\ pc = "pool"
    /\ th[i] = "running"
    /\ th' = [th EXCEPT ![i] = "done"]
    /\ LET r == fetch_single_info(lastCall.symbols[i], lastCall.failing)
       IN  lastCall' = [lastCall EXCEPT !.info_dict = DictSet(@, r.symbol, r.info)]
    /\ UNCHANGED <<cache, calls, fetches, pc, InfoFrame>>

\* lines 302-306: every future is done; fetch_info returns info_dict, which
\* _get_cached_or_fetch stores and returns
ReturnInfo ==
    /\ pc = "pool"
    /\ \A i \in DOMAIN th : th[i] = "done"
    /\ LET r == get_cached_or_fetch(cache, now, InfoKey, lastCall.info_dict, Some(60))
       IN  /\ cache' = r.cache
           /\ lastCall' = [lastCall EXCEPT !.ret = Some(r.data)]
    /\ pc' = "returned"
    /\ UNCHANGED <<th, calls, fetches, InfoFrame>>

NextInfo ==
    \/ SubmitAll
    \/ \E i \in DOMAIN th : StartFetch(i)
    \/ \E i \in DOMAIN th : CompleteFetch(i)
    \/ ReturnInfo

SpecInfo == InitInfo /\ [][NextInfo]_vars

\* the futures that run, and the symbols of the request
RunningFetches == {i \in DOMAIN th : th[i] = "running"}
Requested == {lastCall.symbols[i] : i \in DOMAIN lastCall.symbols}
InfoOf(s) == IF s \in lastCall.failing THEN None ELSE Some(s)

\* C29: at most 10 fetch_single_info calls run at the same time, and in
\* whatever order they complete the call returns a mapping whose keys are
\* the requested symbols, with None for a symbol whose fetch fails and the
\* fetched info for every other symbol.
C29_BoundedPoolFullMapping ==
    /\ Cardinality(RunningFetches) <= 10
    /\ \A s \in DOMAIN lastCall.info_dict :
           s \in Requested /\ lastCall.info_dict[s] = InfoOf(s)
    /\ ~IsNone(lastCall.ret) =>
           /\ DOMAIN Val(lastCall.ret) = Requested
           /\ \A s \in Requested : Val(lastCall.ret)[s] = InfoOf(s)

\* a request for more than 10 symbols has returned; the fetch of one symbol
\* failed, and the others have their info
C29_Witness ==
    /\ pc = "returned"
    /\ Len(lastCall.symbols) > 10
    /\ Cardinality(lastCall.failing) = 1
    /\ \E s \in Requested : Val(lastCall.ret)[s] = None
    /\ \E s \in Requested : Val(lastCall.ret)[s] # None

====
